---- MODULE Spec2Model ----
(***************************************************************************)
(* Model of the authenticated client core of terraform-provider-uptimekuma *)
(* (internal/client/auth.go and internal/client/client.go).                *)
(*                                                                         *)
(* Callers are goroutines that make resource calls through                 *)
(* Client.doRequest, whose transport calls AuthClient.GetToken.  Each      *)
(* goroutine's position is                                                 *)
(* pc[p]; the AuthClient fields token / tokenExpiry and its RWMutex are    *)
(* shared.  A token is modelled as a sequence: <<>> is the empty string    *)
(* and <<k>> is the access token the server issued in login exchange k.    *)
(* Time is counted in minutes.                                             *)
(***************************************************************************)
EXTENDS Integers, Sequences, FiniteSets, TLC

\* ------------------------------------------------------------------ bounds
NumCallers == 2
MaxCalls == 2
MaxLogins == 2
MaxTime == 61
MaxOps == 3
MaxCreates == 2

\* ------------------------------------------------------- program constants
TokenLifetime == 59
StatusOK == 200

Procs == 1..NumCallers
NoProc == 0
ZeroTime == 0
EmptyToken == <<>>

\* Steps by which the clock advances between two program steps.
ClockSteps == {29, 30}

\* ------------------------------------------------------------------ errors
NoErr == [kind |-> "nil", cause |-> "nil", code |-> 0]
Err(kind, cause, code) == [kind |-> kind, cause |-> cause, code |-> code]

\* ------------------------------------------------------ the server's answers
Resp(status, body, readErr) ==
    [netErr |-> FALSE, status |-> status, body |-> body, readErr |-> readErr]
NetErrResp == [netErr |-> TRUE, status |-> 0, body |-> "none", readErr |-> FALSE]

\* Login bodies: "token" is a JSON object with a fresh access_token, "empty"
\* one whose access_token is "", "malformed" is not JSON.
LoginResponses ==
    {NetErrResp, Resp(200, "token", FALSE), Resp(200, "empty", FALSE),
     Resp(200, "malformed", FALSE), Resp(201, "token", FALSE),
     Resp(401, "malformed", FALSE)}

ResourceResponses ==
    {NetErrResp, Resp(200, "{\"status\":\"success\"}", FALSE),
     Resp(200, "{\"status\":\"success\"}", TRUE), Resp(200, "<html>", FALSE),
     Resp(404, "<html>", FALSE)}

\* What a caller passes as requestBody.
RequestBodies == {"nil", "marshalable", "unmarshalable"}

VARIABLES
    token,        \* AuthClient.token
    tokenExpiry,  \* AuthClient.tokenExpiry
    readers,      \* goroutines holding AuthClient.mutex for reading
    writer,       \* goroutine holding AuthClient.mutex for writing, or NoProc
    now,          \* time.Now()
    pc,           \* position of each goroutine
    snapTok,      \* GetToken's local `token`
    snapExp,      \* GetToken's local `expiry`
    tokenResp,    \* refreshToken's local tokenResp.AccessToken
    loginResp,    \* the login response the step just taken received, and its number
    got,          \* what GetToken returned to AddAuthHeader
    wire,         \* the Authorization header of the request in flight
    ret,          \* what the step just taken returned from doRequest, and to whom
    loginCount,   \* POST /login/access-token requests the server has received
    callCount,    \* calls made on the client so far
    start,        \* history: the Token Store when the call's GetToken began
    written,      \* history: the (token, expiry) pairs refreshes have stored
    lastFail,     \* history: the latest login exchange failed
    xid           \* history: the number of the login exchange the call made, or 0

vars == <<token, tokenExpiry, readers, writer, now, pc, snapTok, snapExp,
          tokenResp, loginResp, got, wire, ret, loginCount, callCount,
          start, written, lastFail, xid>>

\* State of one caller followed through a whole resource operation (tag.go,
\* client.go, auth.go:144-162) against the mock server of the tests.
VARIABLES
    epc,          \* position of that caller: "idle", "built", "sent", "answered"
    op,           \* the resource operation in progress and its arguments
    req,          \* the request doRequest built: the caller's original
    req2,         \* RoundTrip's clone of it
    headers,      \* the http.Header maps, by reference
    tags,         \* the mock server's tag list
    received,     \* the request the server's handler received in this operation
    resp,         \* the response on its way back
    out,          \* what the operation returned to its caller
    opCount       \* operations started so far

evars == <<epc, op, req, req2, headers, tags, received, resp, out, opCount>>

\* The contexts of the calls in progress (client.go:80, auth.go:48).
VARIABLES
    ctxDone       \* callers whose call's context has been cancelled

\* Construction of the client (client.go:34-77, auth.go:32-45, 127-135).
VARIABLES
    config,       \* the Config handed to New: <<>> before New is called
    client,       \* the *Client New returned: <<>> is nil
    newErr,       \* the error New returned: "" is nil
    conn          \* the latest request a transport put on the wire

nvars == <<config, client, newErr, conn>>

\* StatusPageResource.Create (the provider's status page resource) against
\* the mock server of status_page_test.go.
VARIABLES
    rpc,          \* position in Create: "idle", "create", "get", "update"
    plan,         \* the planned resource: data.Slug, data.Title
    pages,        \* the mock server's status pages
    calls,        \* the client calls this Create has issued, in order
    oks,          \* how many of them returned no error
    diags,        \* resp.Diagnostics: the summaries of the errors added
    tfstate,      \* resp.State: <<>> until State.Set writes it
    createdPage,  \* Create's local createdPage
    creates       \* Create calls so far

rvars == <<rpc, plan, pages, calls, oks, diags, tfstate, createdPage, creates>>
ovars == <<nvars, rvars>>
allvars == <<vars, evars, ctxDone, ovars>>

NoLoginResp == [xid |-> 0, r |-> Resp(0, "none", FALSE)]
NoGot == [set |-> FALSE, tok |-> EmptyToken, err |-> NoErr]
NoWire == [sent |-> FALSE, auth |-> <<>>, tokenErr |-> NoErr]
NoResult == <<>>
NoRet == [proc |-> NoProc, err |-> NoErr, result |-> NoResult, tokenErr |-> NoErr]
NoStart == [tok |-> EmptyToken, state |-> "none", afterFail |-> FALSE]

\* ------------------------------------------------------------ JSON and HTTP
NoBody == ""
EmptyObject == "{}"
NoAuth == <<>>

\* tag.go:11-15  type Tag
Tag(id, name, color) == [ID |-> id, Name |-> name, Color |-> color]
ZeroTag == Tag(0, "", "")
TagNames == {"", "testing", "production"}
TagColors == {"", "#FF0000"}
TagValues == {Tag(i, n, c) : i \in 0..MaxOps, n \in TagNames, c \in TagColors}

\* tag.go:12-14  json.Marshal of a Tag: id is omitted when zero
EncodeTag(t) ==
    "{" \o (IF t.ID = 0 THEN "" ELSE "\"id\":" \o ToString(t.ID) \o ",")
        \o "\"name\":\"" \o t.Name \o "\",\"color\":\"" \o t.Color \o "\"}"

\* tag.go:12-14  json decoding into a zero Tag: an object's members set the
\* fields they name, {} sets none, anything else is an error
DecodeTag(b) ==
    IF b = EmptyObject THEN [ok |-> TRUE, value |-> ZeroTag]
    ELSE IF \E t \in TagValues : EncodeTag(t) = b
         THEN [ok |-> TRUE, value |-> CHOOSE t \in TagValues : EncodeTag(t) = b]
         ELSE [ok |-> FALSE, value |-> ZeroTag]

\* What a caller may pass as requestBody: nothing, an io.Reader over JSON text
\* (bytes.NewReader, strings.NewReader), a Tag, or a value json cannot encode.
NilBody == [kind |-> "nil", data |-> NoBody, tag |-> ZeroTag]
ReaderOf(b) == [kind |-> "reader", data |-> b, tag |-> ZeroTag]
TagBody(t) == [kind |-> "tag", data |-> NoBody, tag |-> t]
ChanBody == [kind |-> "chan", data |-> NoBody, tag |-> ZeroTag]

MarshalNeverFailing(v) ==
    CASE v.kind = "reader" -> [ok |-> TRUE, text |-> EmptyObject]
      [] v.kind = "tag" -> [ok |-> TRUE, text |-> EncodeTag(v.tag)]
      [] OTHER -> [ok |-> TRUE, text |-> "null"]

\* client.go:87  json.Marshal(requestBody).  A *bytes.Reader or *strings.Reader
\* is a pointer to a struct with no exported field and no MarshalJSON: it
\* encodes as the empty object, whatever text the reader holds.
Marshal(v) ==
    CASE v.kind = "reader" -> [ok |-> TRUE, text |-> EmptyObject]
      [] v.kind = "tag" -> [ok |-> TRUE, text |-> EncodeTag(v.tag)]
      [] OTHER -> [ok |-> FALSE, text |-> NoBody]

NoPrev == [name |-> "none", id |-> 0, ok |-> FALSE]
NoOp == [name |-> "none", tag |-> ZeroTag, id |-> 0, body |-> NilBody,
         prev |-> NoPrev, prevStatus |-> 0, logins |-> 0, sends |-> 0,
         tokenErr |-> NoErr]
NoReq == [method |-> "none", path |-> <<>>, body |-> NoBody, header |-> 0,
          sink |-> "nil"]
NoReceived == [method |-> "none", path |-> <<>>, body |-> NoBody,
               auth |-> NoAuth, found |-> FALSE]
NoHeader == [Accept |-> "", ContentType |-> "", Authorization |-> NoAuth]
NoResp == Resp(0, NoBody, FALSE)
NoOut == [set |-> FALSE, err |-> NoErr, result |-> NoResult]

HeaderRefs == 1..2

ExecInit ==
    /\ epc = "idle"
    /\ op = NoOp
    /\ req = NoReq
    /\ req2 = NoReq
    /\ headers = [h \in HeaderRefs |-> NoHeader]
    /\ tags = <<>>
    /\ received = NoReceived
    /\ resp = NoResp
    /\ out = NoOut
    /\ opCount = 0

\* ------------------------------------------------------------ construction
\* An http.RoundTripper is the list of its layers, outermost first: <<>> is a
\* nil Transport, "auth" an authTransport over the rest, "verifying" and
\* "insecure" a user's *http.Transport that checks certificates or skips the
\* check.
NilTransport == <<>>
UserTransports == {NilTransport, <<"verifying">>, <<"insecure">>}
HTTPClient(transport, timeout) == [Transport |-> transport, Timeout |-> timeout]

\* client.go:48  30 * time.Second
DefaultTimeout == 30

\* client.go:17-24  type Config; CustomHTTPClient is <<>> (nil) or <<c>>
Configs ==
    [BaseURL : {"", "http://localhost:3001"},
     Username : {"", "admin"},
     Password : {"", "password"},
     Timeout : {0, 10},
     InsecureHTTPS : BOOLEAN,
     CustomHTTPClient :
        {<<>>} \cup {<<HTTPClient(t, 10)>> : t \in UserTransports \ {NilTransport}}]

NoConn == [kind |-> "none", via |-> NilTransport, verify |-> TRUE,
           auth |-> FALSE, getTokens |-> 0]

NewInit ==
    /\ config = <<>>
    /\ client = <<>>
    /\ newErr = ""
    /\ conn = NoConn

\* ------------------------------------------------------------ status pages
\* status_page.go:19-34  type StatusPage: the fields Create reads or sends
Page(id, slug, title) == [ID |-> id, Slug |-> slug, Title |-> title]
NoPage == Page(0, "", "")
NoPlan == [Slug |-> "", Title |-> ""]

\* status_page_test.go:16-57  the pages the mock server starts with
InitialPages ==
    <<Page(1, "main-status", "Main Status Page"),
      Page(2, "dev-status", "Development Status")>>

Slugs == {"", "main-status", "dev-status", "new-status"}
Titles == {"", "New Status", "Main Status Page"}

\* status_page.go:42-46  json.Marshal of an AddStatusPageRequest
EncodeAdd(slug, title) ==
    "{\"slug\":\"" \o slug \o "\",\"title\":\"" \o title \o "\"}"

\* status_page_test.go:108-112  json decoding into a zero AddStatusPageRequest
DecodeAdd(b) ==
    IF b = EmptyObject THEN [ok |-> TRUE, value |-> NoPlan]
    ELSE IF \E sl \in Slugs, t \in Titles : EncodeAdd(sl, t) = b
         THEN [ok |-> TRUE,
               value |-> CHOOSE v \in [Slug : Slugs, Title : Titles] :
                            EncodeAdd(v.Slug, v.Title) = b]
         ELSE [ok |-> FALSE, value |-> NoPlan]

\* status_page.go:54-67  json.Marshal of a SaveStatusPageRequest: every field
\* is omitempty
EncodeSave(title) ==
    IF title = "" THEN EmptyObject ELSE "{\"title\":\"" \o title \o "\"}"

\* status_page_test.go:240-244  json decoding into a zero SaveStatusPageRequest
DecodeSave(b) ==
    IF b = EmptyObject THEN [ok |-> TRUE, Title |-> ""]
    ELSE IF \E t \in Titles : EncodeSave(t) = b
         THEN [ok |-> TRUE, Title |-> CHOOSE t \in Titles : EncodeSave(t) = b]
         ELSE [ok |-> FALSE, Title |-> ""]

CreateInit ==
    /\ rpc = "idle"
    /\ plan = NoPlan
    /\ pages = InitialPages
    /\ calls = <<>>
    /\ oks = 0
    /\ diags = <<>>
    /\ tfstate = <<>>
    /\ createdPage = NoPage
    /\ creates = 0

Init ==
    /\ token = EmptyToken
    /\ tokenExpiry = ZeroTime
    /\ readers = {}
    /\ writer = NoProc
    /\ now = 1
    /\ pc = [p \in Procs |-> "idle"]
    /\ snapTok = [p \in Procs |-> EmptyToken]
    /\ snapExp = [p \in Procs |-> ZeroTime]
    /\ tokenResp = [p \in Procs |-> EmptyToken]
    /\ loginResp = NoLoginResp
    /\ got = [p \in Procs |-> NoGot]
    /\ wire = [p \in Procs |-> NoWire]
    /\ ret = NoRet
    /\ loginCount = 0
    /\ callCount = 0
    /\ start = [p \in Procs |-> NoStart]
    /\ written = {}
    /\ lastFail = FALSE
    /\ xid = [p \in Procs |-> 0]
    /\ ctxDone = {}
    /\ ExecInit
    /\ NewInit
    /\ CreateInit

\* ------------------------------------------------- pure pieces of the code

NeedsRefreshAtExpiry(tok, exp, t) == tok = EmptyToken \/ t >= exp
NeedsRefreshOnlyEmpty(tok, exp, t) == tok = EmptyToken

\* auth.go:55  token == "" || time.Now().After(expiry)
NeedsRefresh(tok, exp, t) == tok = EmptyToken \/ t > exp

StillValidNever(tok, exp, t) == FALSE

\* auth.go:68  a.token != "" && time.Now().Before(a.tokenExpiry)
StillValid(tok, exp, t) == tok # EmptyToken /\ t < exp

LoginStatusAccepted2xx(status) == status >= 200 /\ status < 300

\* auth.go:93  resp.StatusCode != http.StatusOK is a failure
LoginStatusAccepted(status) == status = StatusOK

\* auth.go:98-101  json decoding of the login body; k is the exchange's number
DecodeTokenResponse(body, k) ==
    CASE body = "token" -> [ok |-> TRUE, AccessToken |-> <<k>>]
      [] body = "empty" -> [ok |-> TRUE, AccessToken |-> EmptyToken]
      [] OTHER -> [ok |-> FALSE, AccessToken |-> EmptyToken]

ExpiryFromHour(t) == t + 60

\* auth.go:110  time.Now().Add(59 * time.Minute)
ExpiryFrom(t) == t + TokenLifetime

\* auth.go:122  fmt.Sprintf("Bearer %s", token)
Bearer(tok) == <<"Bearer", tok>>

StatusSuccessAny(status) == TRUE
StatusSuccessBelow500(status) == status >= 200 /\ status < 500

\* client.go:122  resp.StatusCode < 200 || resp.StatusCode >= 300 is a failure
StatusSuccess(status) == status >= 200 /\ status < 300

\* client.go:131  json.Unmarshal(respBodyBytes, result)
Unmarshal(b) ==
    IF b = "{\"status\":\"success\"}"
    THEN [ok |-> TRUE, value |-> [status |-> "success"]]
    ELSE IF DecodeTag(b).ok
         THEN [ok |-> TRUE, value |-> DecodeTag(b).value]
         ELSE [ok |-> FALSE, value |-> [status |-> ""]]

CanRLockAlways == TRUE
CanLockIgnoringReaders == writer = NoProc

\* sync.RWMutex: RLock waits for the writer, Lock for the writer and the readers
CanRLock == writer = NoProc
CanLock == writer = NoProc /\ readers = {}

UnlockedOnSuccessOnly(p) == IF writer = p /\ pc[p] = "rt_store_expiry" THEN NoProc ELSE writer

\* auth.go:65  defer a.mutex.Unlock()
Unlocked(p) == IF writer = p THEN NoProc ELSE writer

LoginOutcomeNoEmptyCheck(r, k) ==
    LET d == DecodeTokenResponse(r.body, k) IN
    CASE r.netErr -> [err |-> Err("auth_transport", "nil", 0), tok |-> EmptyToken]
      [] ~LoginStatusAccepted(r.status) ->
            [err |-> Err("auth_status", "nil", r.status), tok |-> EmptyToken]
      [] ~d.ok -> [err |-> Err("auth_decode", "nil", 0), tok |-> EmptyToken]
      [] OTHER -> [err |-> NoErr, tok |-> d.AccessToken]

\* The outcome of refreshToken lines 87-105 on login response r of exchange k:
\* the error returned, or NoErr and the access token to store.
LoginOutcome(r, k) ==
    LET d == DecodeTokenResponse(r.body, k) IN
    CASE r.netErr -> [err |-> Err("auth_transport", "nil", 0), tok |-> EmptyToken]
      [] ~LoginStatusAccepted(r.status) ->
            [err |-> Err("auth_status", "nil", r.status), tok |-> EmptyToken]
      [] ~d.ok -> [err |-> Err("auth_decode", "nil", 0), tok |-> EmptyToken]
      [] d.AccessToken = EmptyToken ->
            [err |-> Err("auth_empty", "nil", 0), tok |-> EmptyToken]
      [] OTHER -> [err |-> NoErr, tok |-> d.AccessToken]

RequestOutcomeIgnoringReadError(r, sink) ==
    LET d == Unmarshal(r.body) IN
    CASE r.netErr -> [err |-> Err("execute", "transport", 0), result |-> NoResult]
      [] ~StatusSuccess(r.status) ->
            [err |-> Err("status", r.body, r.status), result |-> NoResult]
      [] sink /\ ~d.ok -> [err |-> Err("decode", r.body, 0), result |-> NoResult]
      [] OTHER -> [err |-> NoErr, result |-> IF sink THEN <<d.value>> ELSE NoResult]

RequestOutcomeAlwaysDecoding(r, sink) ==
    LET d == Unmarshal(r.body) IN
    CASE r.netErr -> [err |-> Err("execute", "transport", 0), result |-> NoResult]
      [] ~StatusSuccess(r.status) ->
            [err |-> Err("status", r.body, r.status), result |-> NoResult]
      [] r.readErr -> [err |-> Err("read", "nil", 0), result |-> NoResult]
      [] ~d.ok -> [err |-> Err("decode", r.body, 0), result |-> NoResult]
      [] OTHER -> [err |-> NoErr, result |-> IF sink THEN <<d.value>> ELSE NoResult]

\* The outcome of doRequest lines 108-136 on resource response r, for a call
\* whose result argument is non-nil (sink) or nil.
RequestOutcome(r, sink) ==
    LET d == Unmarshal(r.body) IN
    CASE r.netErr -> [err |-> Err("execute", "transport", 0), result |-> NoResult]
      [] ~StatusSuccess(r.status) ->
            [err |-> Err("status", r.body, r.status), result |-> NoResult]
      [] sink /\ r.readErr -> [err |-> Err("read", "nil", 0), result |-> NoResult]
      [] sink /\ ~d.ok -> [err |-> Err("decode", r.body, 0), result |-> NoResult]
      [] OTHER -> [err |-> NoErr, result |-> IF sink THEN <<d.value>> ELSE NoResult]

LoginContextBackground(p) == NoProc

\* auth.go:78  http.NewRequestWithContext(ctx, ...): the login request carries
\* the context of the call whose GetToken makes it (auth.go:149, 117, 59)
LoginContext(p) == p

\* client.go:95  http.NewRequestWithContext(ctx, ...)
RequestContext(p) == p

\* auth.go:87, client.go:108  httpClient.Do: a request whose context is
\* cancelled is aborted and Do returns an error, whatever the server answers
Do(ctx, r) == IF ctx \in ctxDone THEN NetErrResp ELSE r

AuthFailedIgnored(g) == FALSE

\* auth.go:118, 149  if err != nil
AuthFailed(g) == g.err # NoErr

AfterFailedLoginExtended(tok, exp) == <<tok, exp + TokenLifetime>>

\* auth.go:88-105  every error return leaves a.token and a.tokenExpiry as
\* they are: the pair after a failed exchange
AfterFailedLogin(tok, exp) == <<tok, exp>>

AfterResponseDroppingOn401(tok, exp, r) ==
    IF ~r.netErr /\ r.status = 401 THEN <<EmptyToken, ZeroTime>> ELSE <<tok, exp>>

\* client.go:108-136  nothing after c.httpClient.Do returns reaches the
\* AuthClient: the (token, expiry) pair after response r is the pair before
AfterResponse(tok, exp, r) == <<tok, exp>>

\* How the Token Store looks to a call that begins at time t: empty, expired
\* (expires_at has passed), valid, or changing while a refresh is between its
\* two assignments.
StoreState(tok, exp, t) ==
    CASE \E q \in Procs : pc[q] = "rt_store_expiry" -> "changing"
      [] tok = EmptyToken -> "empty"
      [] t > exp -> "expired"
      [] OTHER -> "valid"

\* ----------------------------------------------------------------- actions
Idle(p) == pc[p] = "idle"

\* The step returns nothing to doRequest's caller / receives no login response.
NoReturn == ret' = NoRet
NoLoginResponse == loginResp' = NoLoginResp

\* GetToken, refreshToken and RoundTrip have returned: their locals are gone.
Forget(p) ==
    /\ snapTok' = [snapTok EXCEPT ![p] = EmptyToken]
    /\ snapExp' = [snapExp EXCEPT ![p] = ZeroTime]
    /\ tokenResp' = [tokenResp EXCEPT ![p] = EmptyToken]
    /\ got' = [got EXCEPT ![p] = NoGot]
    /\ start' = [start EXCEPT ![p] = NoStart]
    /\ xid' = [xid EXCEPT ![p] = 0]

\* client.go:80-108, auth.go:146-149, 117  doRequest up to c.httpClient.Do(req):
\* marshal the body and build the request; RoundTrip clones it and
\* AddAuthHeader calls GetToken.
doRequest_Call(p, body) ==
    /\ Idle(p)
    /\ NoLoginResponse
    /\ callCount < MaxCalls
    /\ callCount' = callCount + 1
    /\ wire' = wire
    /\ IF body = "unmarshalable"
       THEN /\ pc' = [pc EXCEPT ![p] = "idle"]
            /\ ret' = [proc |-> p, err |-> Err("marshal", "nil", 0),
                       result |-> NoResult, tokenErr |-> NoErr]
            /\ start' = start
       ELSE /\ pc' = [pc EXCEPT ![p] = "gt_rlock"]
            /\ NoReturn
            /\ start' = [start EXCEPT ![p] =
                  [tok |-> token, state |-> StoreState(token, tokenExpiry, now),
                   afterFail |-> lastFail]]
    /\ UNCHANGED <<token, tokenExpiry, readers, writer, now, snapTok, snapExp,
                   tokenResp, got, loginCount, written, lastFail, xid>>
    /\ UNCHANGED <<evars, ovars>>
    /\ ctxDone' = ctxDone \ {p}

\* auth.go:49  a.mutex.RLock()
GetToken_RLock(p) ==
    /\ pc[p] = "gt_rlock"
    /\ NoReturn /\ NoLoginResponse
    /\ CanRLock
    /\ readers' = readers \cup {p}
    /\ pc' = [pc EXCEPT ![p] = "gt_read_token"]
    /\ UNCHANGED <<token, tokenExpiry, writer, now, snapTok, snapExp, tokenResp,
                   got, wire, loginCount, callCount, start, written, lastFail,
                   xid>>
    /\ UNCHANGED <<evars, ovars>>
    /\ UNCHANGED ctxDone

\* auth.go:50  token := a.token
GetToken_ReadToken(p) ==
    /\ pc[p] = "gt_read_token"
    /\ NoReturn /\ NoLoginResponse
    /\ snapTok' = [snapTok EXCEPT ![p] = token]
    /\ pc' = [pc EXCEPT ![p] = "gt_read_expiry"]
    /\ UNCHANGED <<token, tokenExpiry, readers, writer, now, snapExp, tokenResp,
                   got, wire, loginCount, callCount, start, written, lastFail,
                   xid>>
    /\ UNCHANGED <<evars, ovars>>
    /\ UNCHANGED ctxDone

\* auth.go:51  expiry := a.tokenExpiry
GetToken_ReadExpiry(p) ==
    /\ pc[p] = "gt_read_expiry"
    /\ NoReturn /\ NoLoginResponse
    /\ snapExp' = [snapExp EXCEPT ![p] = tokenExpiry]
    /\ pc' = [pc EXCEPT ![p] = "gt_runlock"]
    /\ UNCHANGED <<token, tokenExpiry, readers, writer, now, snapTok, tokenResp,
                   got, wire, loginCount, callCount, start, written, lastFail,
                   xid>>
    /\ UNCHANGED <<evars, ovars>>
    /\ UNCHANGED ctxDone

\* auth.go:52  a.mutex.RUnlock()
GetToken_RUnlock(p) ==
    /\ pc[p] = "gt_runlock"
    /\ NoReturn /\ NoLoginResponse
    /\ readers' = readers \ {p}
    /\ pc' = [pc EXCEPT ![p] = "gt_check"]
    /\ UNCHANGED <<token, tokenExpiry, writer, now, snapTok, snapExp, tokenResp,
                   got, wire, loginCount, callCount, start, written, lastFail,
                   xid>>
    /\ UNCHANGED <<evars, ovars>>
    /\ UNCHANGED ctxDone

\* auth.go:55-59  refresh, or return the snapshot
GetToken_Check(p) ==
    /\ pc[p] = "gt_check"
    /\ NoReturn /\ NoLoginResponse
    /\ IF NeedsRefresh(snapTok[p], snapExp[p], now)
       THEN /\ pc' = [pc EXCEPT ![p] = "rt_lock"]
            /\ got' = got
       ELSE /\ pc' = [pc EXCEPT ![p] = "gt_ret"]
            /\ got' = [got EXCEPT ![p] =
                          [set |-> TRUE, tok |-> snapTok[p], err |-> NoErr]]
    /\ UNCHANGED <<token, tokenExpiry, readers, writer, now, snapTok, snapExp,
                   tokenResp, wire, loginCount, callCount, start, written,
                   lastFail, xid>>
    /\ UNCHANGED <<evars, ovars>>
    /\ UNCHANGED ctxDone

\* auth.go:64  a.mutex.Lock()
refreshToken_Lock(p) ==
    /\ pc[p] = "rt_lock"
    /\ NoReturn /\ NoLoginResponse
    /\ CanLock
    /\ writer' = p
    /\ pc' = [pc EXCEPT ![p] = "rt_check"]
    /\ UNCHANGED <<token, tokenExpiry, readers, now, snapTok, snapExp,
                   tokenResp, got, wire, loginCount, callCount, start, written,
                   lastFail, xid>>
    /\ UNCHANGED <<evars, ovars>>
    /\ UNCHANGED ctxDone

\* auth.go:68-87  the double check: return the token another caller stored
\* (the deferred Unlock runs), or send POST /login/access-token
refreshToken_DoubleCheck(p) ==
    /\ pc[p] = "rt_check"
    /\ NoReturn /\ NoLoginResponse
    /\ IF StillValid(token, tokenExpiry, now)
       THEN /\ got' = [got EXCEPT ![p] = [set |-> TRUE, tok |-> token, err |-> NoErr]]
            /\ writer' = Unlocked(p)
            /\ pc' = [pc EXCEPT ![p] = "gt_ret"]
            /\ UNCHANGED <<loginCount, xid>>
       ELSE /\ loginCount < MaxLogins
            /\ loginCount' = loginCount + 1
            /\ xid' = [xid EXCEPT ![p] = loginCount + 1]
            /\ pc' = [pc EXCEPT ![p] = "rt_wait"]
            /\ UNCHANGED <<got, writer>>
    /\ UNCHANGED <<token, tokenExpiry, readers, now, snapTok, snapExp,
                   tokenResp, wire, callCount, start, written, lastFail>>
    /\ UNCHANGED <<evars, ovars>>
    /\ UNCHANGED ctxDone

\* auth.go:87-105  the login response arrives; on any failure return the error
\* (the deferred Unlock runs)
refreshToken_Response(p, r) ==
    /\ pc[p] = "rt_wait"
    /\ NoReturn
    /\ loginResp' = [xid |-> xid[p], r |-> Do(LoginContext(p), r)]
    /\ LET o == LoginOutcome(Do(LoginContext(p), r), loginCount) IN
       IF o.err # NoErr
       THEN /\ got' = [got EXCEPT ![p] =
                          [set |-> TRUE, tok |-> EmptyToken, err |-> o.err]]
            /\ token' = AfterFailedLogin(token, tokenExpiry)[1]
            /\ tokenExpiry' = AfterFailedLogin(token, tokenExpiry)[2]
            /\ writer' = Unlocked(p)
            /\ pc' = [pc EXCEPT ![p] = "gt_ret"]
            /\ tokenResp' = tokenResp
            /\ lastFail' = TRUE
       ELSE /\ tokenResp' = [tokenResp EXCEPT ![p] = o.tok]
            /\ pc' = [pc EXCEPT ![p] = "rt_store_token"]
            /\ lastFail' = FALSE
            /\ UNCHANGED <<got, writer, token, tokenExpiry>>
    /\ UNCHANGED <<readers, now, snapTok, snapExp, wire, loginCount, callCount,
                   start, written, xid>>
    /\ UNCHANGED <<evars, ovars>>
    /\ UNCHANGED ctxDone

\* auth.go:108  a.token = tokenResp.AccessToken
refreshToken_StoreToken(p) ==
    /\ pc[p] = "rt_store_token"
    /\ NoReturn /\ NoLoginResponse
    /\ token' = tokenResp[p]
    /\ pc' = [pc EXCEPT ![p] = "rt_store_expiry"]
    /\ UNCHANGED <<tokenExpiry, readers, writer, now, snapTok, snapExp,
                   tokenResp, got, wire, loginCount, callCount, start, written,
                   lastFail, xid>>
    /\ UNCHANGED <<evars, ovars>>
    /\ UNCHANGED ctxDone

\* auth.go:110-112  a.tokenExpiry = time.Now().Add(...); return a.token, nil
\* (the deferred Unlock runs)
refreshToken_StoreExpiry(p) ==
    /\ pc[p] = "rt_store_expiry"
    /\ NoReturn /\ NoLoginResponse
    /\ tokenExpiry' = ExpiryFrom(now)
    /\ written' = written \cup {<<tokenResp[p], ExpiryFrom(now)>>}
    /\ got' = [got EXCEPT ![p] = [set |-> TRUE, tok |-> token, err |-> NoErr]]
    /\ writer' = Unlocked(p)
    /\ pc' = [pc EXCEPT ![p] = "gt_ret"]
    /\ UNCHANGED <<token, readers, now, snapTok, snapExp, tokenResp, wire,
                   loginCount, callCount, start, lastFail, xid>>
    /\ UNCHANGED <<evars, ovars>>
    /\ UNCHANGED ctxDone

\* auth.go:117-124, 149-161  AddAuthHeader and the rest of RoundTrip: on an
\* error return it and doRequest returns it (client.go:109-111); otherwise set
\* the header on the clone and hand the clone to the base transport.
RoundTrip_Dispatch(p) ==
    /\ pc[p] = "gt_ret"
    /\ NoLoginResponse
    /\ IF AuthFailed(got[p])
       THEN /\ ret' = [proc |-> p,
                       err |-> Err("execute", got[p].err.kind, got[p].err.code),
                       result |-> NoResult, tokenErr |-> got[p].err]
            /\ pc' = [pc EXCEPT ![p] = "idle"]
            /\ wire' = wire
       ELSE /\ wire' = [wire EXCEPT ![p] =
                           [sent |-> TRUE, auth |-> Bearer(got[p].tok),
                            tokenErr |-> got[p].err]]
            /\ pc' = [pc EXCEPT ![p] = "rq_wait"]
            /\ NoReturn
    /\ Forget(p)
    /\ UNCHANGED <<token, tokenExpiry, readers, writer, now, loginCount,
                   callCount, written, lastFail>>
    /\ UNCHANGED <<evars, ovars>>
    /\ UNCHANGED ctxDone

\* client.go:108-136  the resource response arrives and doRequest returns;
\* sink tells whether the caller passed a non-nil result.
doRequest_Response(p, r, sink) ==
    /\ pc[p] = "rq_wait"
    /\ NoLoginResponse
    /\ LET o == RequestOutcome(Do(RequestContext(p), r), sink) IN
       ret' = [proc |-> p, err |-> o.err, result |-> o.result,
               tokenErr |-> wire[p].tokenErr]
    /\ wire' = [wire EXCEPT ![p] = NoWire]
    /\ pc' = [pc EXCEPT ![p] = "idle"]
    /\ UNCHANGED <<token, tokenExpiry, readers, writer, now, snapTok, snapExp,
                   tokenResp, got, loginCount, callCount, start, written,
                   lastFail, xid>>
    /\ UNCHANGED <<evars, ovars>>
    /\ UNCHANGED ctxDone

\* Time passes.
Tick(d) ==
    /\ now + d <= MaxTime
    /\ now' = now + d
    /\ NoReturn /\ NoLoginResponse
    /\ UNCHANGED <<token, tokenExpiry, readers, writer, pc, snapTok, snapExp,
                   tokenResp, got, wire, loginCount, callCount, start, written,
                   lastFail, xid>>
    /\ UNCHANGED <<evars, ovars>>
    /\ UNCHANGED ctxDone

Next ==
    \/ \E p \in Procs, b \in RequestBodies : doRequest_Call(p, b)
    \/ \E p \in Procs : GetToken_RLock(p)
    \/ \E p \in Procs : GetToken_ReadToken(p)
    \/ \E p \in Procs : GetToken_ReadExpiry(p)
    \/ \E p \in Procs : GetToken_RUnlock(p)
    \/ \E p \in Procs : GetToken_Check(p)
    \/ \E p \in Procs : refreshToken_Lock(p)
    \/ \E p \in Procs : refreshToken_DoubleCheck(p)
    \/ \E p \in Procs, r \in LoginResponses : refreshToken_Response(p, r)
    \/ \E p \in Procs : refreshToken_StoreToken(p)
    \/ \E p \in Procs : refreshToken_StoreExpiry(p)
    \/ \E p \in Procs : RoundTrip_Dispatch(p)
    \/ \E p \in Procs, r \in ResourceResponses, s \in BOOLEAN :
          doRequest_Response(p, r, s)
    \/ \E d \in ClockSteps : Tick(d)

Spec == Init /\ [][Next]_allvars

\* ---------------------------------------------------------------- fairness
\* The steps of caller p inside GetToken, the arrival of the login response
\* among them.
GetTokenStep(p) ==
    \/ GetToken_RLock(p)
    \/ GetToken_ReadToken(p)
    \/ GetToken_ReadExpiry(p)
    \/ GetToken_RUnlock(p)
    \/ GetToken_Check(p)
    \/ refreshToken_Lock(p)
    \/ refreshToken_DoubleCheck(p)
    \/ \E r \in LoginResponses : refreshToken_Response(p, r)
    \/ refreshToken_StoreToken(p)
    \/ refreshToken_StoreExpiry(p)

\* The callers under the Go scheduler: a goroutine that can run does run, and
\* every login exchange returns.
FairNext ==
    \/ \E p \in Procs, b \in RequestBodies : doRequest_Call(p, b)
    \/ \E p \in Procs : GetTokenStep(p)
    \/ \E p \in Procs : RoundTrip_Dispatch(p)
    \/ \E p \in Procs, r \in ResourceResponses, s \in BOOLEAN :
          doRequest_Response(p, r, s)

FairSpec ==
    Init /\ [][FairNext]_allvars /\ \A p \in Procs : WF_allvars(GetTokenStep(p))

\* ------------------------------------------------------------- cancellation
\* The caller of a call in progress cancels the context it passed.
Cancel(p) ==
    /\ ~Idle(p)
    /\ p \notin ctxDone
    /\ ctxDone' = ctxDone \cup {p}
    /\ NoReturn /\ NoLoginResponse
    /\ UNCHANGED <<token, tokenExpiry, readers, writer, now, pc, snapTok,
                   snapExp, tokenResp, got, wire, loginCount, callCount, start,
                   written, lastFail, xid>>
    /\ UNCHANGED <<evars, ovars>>

\* The callers followed under cancellation: all but one of the goroutines.
CancelProcs == 1..(NumCallers - 1)

CancelNext ==
    \/ \E p \in CancelProcs, b \in RequestBodies : doRequest_Call(p, b)
    \/ \E p \in CancelProcs : GetToken_RLock(p)
    \/ \E p \in CancelProcs : GetToken_ReadToken(p)
    \/ \E p \in CancelProcs : GetToken_ReadExpiry(p)
    \/ \E p \in CancelProcs : GetToken_RUnlock(p)
    \/ \E p \in CancelProcs : GetToken_Check(p)
    \/ \E p \in CancelProcs : refreshToken_Lock(p)
    \/ \E p \in CancelProcs : refreshToken_DoubleCheck(p)
    \/ \E p \in CancelProcs, r \in LoginResponses : refreshToken_Response(p, r)
    \/ \E p \in CancelProcs : refreshToken_StoreToken(p)
    \/ \E p \in CancelProcs : refreshToken_StoreExpiry(p)
    \/ \E p \in CancelProcs : RoundTrip_Dispatch(p)
    \/ \E p \in CancelProcs, r \in ResourceResponses, s \in BOOLEAN :
          doRequest_Response(p, r, s)
    \/ \E d \in ClockSteps : Tick(d)
    \/ \E p \in CancelProcs : Cancel(p)

CancelSpec == Init /\ [][CancelNext]_allvars

\* ------------------------------------------- one caller, operation by operation
\* What the followed caller leaves alone: the other goroutines and their history.
cvars == <<readers, writer, pc, snapTok, snapExp, tokenResp, loginResp, got,
           wire, ret, callCount, start, written, lastFail, xid>>

JSONType == "application/json"

\* The operation just finished, as the next one remembers it: ok when the
\* server carried it out and it returned no error.
Finished ==
    [name |-> op.name, id |-> op.id,
     ok |-> out.set /\ out.err = NoErr /\ received.found]

\* The status of the API error the operation just finished returned
\* (client.go:122-124), 0 when it returned none.
FailedStatus == IF out.err.kind = "status" THEN out.err.code ELSE 0

\* client.go:80-104  doRequest up to the request it hands to c.httpClient.Do:
\* marshal requestBody, build the request, set Accept and, with a body,
\* Content-Type.  A marshal failure returns at once.
Build(name, tag, id, method, path, requestBody, sink) ==
    LET m == Marshal(requestBody)
        hasBody == requestBody.kind # "nil"
    IN
    /\ epc = "idle"
    /\ opCount < MaxOps
    /\ opCount' = opCount + 1
    /\ op' = [name |-> name, tag |-> tag, id |-> id, body |-> requestBody,
              prev |-> Finished, prevStatus |-> FailedStatus, logins |-> 0,
              sends |-> 0, tokenErr |-> NoErr]
    /\ req2' = NoReq
    /\ received' = NoReceived
    /\ resp' = NoResp
    /\ IF hasBody /\ ~m.ok
       THEN /\ out' = [set |-> TRUE, err |-> Err("marshal", "nil", 0),
                       result |-> NoResult]
            /\ req' = NoReq
            /\ headers' = [h \in HeaderRefs |-> NoHeader]
            /\ epc' = "idle"
       ELSE /\ out' = NoOut
            /\ req' = [method |-> method, path |-> path,
                       body |-> IF hasBody THEN m.text ELSE NoBody,
                       header |-> 1, sink |-> sink]
            /\ headers' = [h \in HeaderRefs |->
                              IF h = 1
                              THEN [Accept |-> JSONType,
                                    ContentType |-> IF hasBody THEN JSONType ELSE "",
                                    Authorization |-> NoAuth]
                              ELSE NoHeader]
            /\ epc' = "built"
    /\ UNCHANGED <<token, tokenExpiry, now, loginCount, tags>>
    /\ UNCHANGED <<cvars, ctxDone, ovars>>

\* client.go:145-157  Post, Put, Patch: requestBody goes to doRequest as it is
Post(method, requestBody) ==
    Build("Post", ZeroTag, 0, method, <<"test">>, requestBody, "map")

\* tag.go:37-48  CreateTag: marshal the tag, then Post a reader over the bytes
CreateTag(tag) ==
    LET data == Marshal(TagBody(tag)) IN
    Build("CreateTag", tag, 0, "POST", <<"tags">>, ReaderOf(data.text), "Tag")

\* tag.go:27-34  GetTag
GetTag(id) == Build("GetTag", ZeroTag, id, "GET", <<"tags", id>>, NilBody, "Tag")

\* tag.go:51-57  DeleteTag
DeleteTag(id) == Build("DeleteTag", ZeroTag, id, "DELETE", <<"tags", id>>, NilBody, "nil")

\* monitor.go:190-198  json.Marshal of struct{TagID int `json:"tag_id"`}
TagIDBody(tagID) == "{\"tag_id\":" \o ToString(tagID) \o "}"

\* monitor_test.go:24, 36  the monitors the mock server holds
MonitorIDs == {1, 2}

\* monitor.go:189-206, client.go:160-162  DeleteMonitorTag: the reader over
\* the marshalled tag_id is handed to Delete, whose only argument besides the
\* path is result; doRequest gets a nil requestBody and the reader as result
DeleteMonitorTag(monitorID, tagID) ==
    Build("DeleteMonitorTag", Tag(tagID, "", ""), monitorID, "DELETE",
          <<"monitors", monitorID, "tag">>, NilBody, "reader")

\* auth.go:48-113  GetToken when no other goroutine is inside: what it returns
\* and the (token, expiry) pair it leaves, on login response r if it exchanges
GetTokenAlone(r) ==
    IF ~NeedsRefresh(token, tokenExpiry, now) \/ StillValid(token, tokenExpiry, now)
    THEN [err |-> NoErr, tok |-> token, exchanged |-> FALSE,
          pair |-> <<token, tokenExpiry>>]
    ELSE LET o == LoginOutcome(r, loginCount + 1) IN
         IF o.err # NoErr
         THEN [err |-> o.err, tok |-> EmptyToken, exchanged |-> TRUE,
               pair |-> AfterFailedLogin(token, tokenExpiry)]
         ELSE [err |-> NoErr, tok |-> o.tok, exchanged |-> TRUE,
               pair |-> <<o.tok, ExpiryFrom(now)>>]

CloneHeaderShared(h) == h

\* auth.go:146  req.Clone: the clone gets a header map of its own
CloneHeader(h) == h + 1

\* auth.go:144-161, 116-124  RoundTrip: clone the request, AddAuthHeader on the
\* clone, and hand the clone to the base transport; on a GetToken error
\* return it, and doRequest returns it wrapped (client.go:109-111).
RoundTrip(r) ==
    LET g == GetTokenAlone(r)
        h2 == CloneHeader(req.header)
        copied == [headers EXCEPT ![h2] = headers[req.header]]
    IN
    /\ epc = "built"
    /\ req2' = [req EXCEPT !.header = h2]
    /\ token' = g.pair[1]
    /\ tokenExpiry' = g.pair[2]
    /\ loginCount' = IF g.exchanged THEN loginCount + 1 ELSE loginCount
    /\ op' = [op EXCEPT !.logins = IF g.exchanged THEN @ + 1 ELSE @,
                        !.tokenErr = g.err]
    /\ IF AuthFailed(g)
       THEN /\ headers' = copied
            /\ out' = [set |-> TRUE, err |-> Err("execute", g.err.kind, g.err.code),
                       result |-> NoResult]
            /\ epc' = "idle"
       ELSE /\ headers' = [copied EXCEPT ![h2].Authorization = Bearer(g.tok)]
            /\ out' = out
            /\ epc' = "sent"
    /\ UNCHANGED <<req, tags, received, resp, opCount, now>>
    /\ UNCHANGED <<cvars, ctxDone, ovars>>

\* tag_test.go:89-96  the position of the tag with this id in the list, or 0
IndexOf(id) ==
    IF \E i \in 1..Len(tags) : tags[i].ID = id
    THEN CHOOSE i \in 1..Len(tags) :
            tags[i].ID = id /\ \A j \in 1..(i - 1) : tags[j].ID # id
    ELSE 0

\* monitor_test.go:102-111  the next id is one more than the largest in use
NextID ==
    IF tags = <<>> THEN 1
    ELSE 1 + (CHOOSE m \in {tags[i].ID : i \in 1..Len(tags)} :
                 \A i \in 1..Len(tags) : tags[i].ID <= m)

Without(i) == [j \in 1..(Len(tags) - 1) |-> IF j < i THEN tags[j] ELSE tags[j + 1]]

\* monitor_test.go:227, 244  json decoding of a request body into a map: a
\* JSON object decodes, an empty body does not
DecodeMap(b) ==
    \/ b = EmptyObject
    \/ DecodeTag(b).ok
    \/ \E k \in 0..MaxOps : b = TagIDBody(k)

\* tag_test.go:32-119, client_test.go:45-57  the mock server's handler: what
\* it answers to the request it is handed, and the tag list it leaves
Handle(method, path, body, auth) ==
    LET authorized == \E k \in 1..loginCount : auth = Bearer(<<k>>)
        d == DecodeTag(body)
        created == [d.value EXCEPT !.ID = NextID]
        i == IF Len(path) = 2 THEN IndexOf(path[2]) ELSE 0
    IN
    CASE ~authorized -> [r |-> Resp(401, NoBody, FALSE), tags |-> tags, found |-> FALSE]
      [] path = <<"test">> ->
            [r |-> Resp(200, "{\"status\":\"success\"}", FALSE), tags |-> tags,
             found |-> TRUE]
      [] Len(path) = 3 /\ path[3] = "tag" /\ method \in {"POST", "DELETE"} ->
            IF DecodeMap(body)
            THEN [r |-> Resp(200, "{\"msg\":\"tag deleted\"}", FALSE), tags |-> tags,
                  found |-> TRUE]
            ELSE [r |-> Resp(400, "Bad request body for delete tag", FALSE),
                  tags |-> tags, found |-> FALSE]
      [] path = <<"tags">> /\ method = "POST" /\ ~d.ok ->
            [r |-> Resp(400, NoBody, FALSE), tags |-> tags, found |-> FALSE]
      [] path = <<"tags">> /\ method = "POST" /\ d.ok ->
            [r |-> Resp(200, EncodeTag(created), FALSE),
             tags |-> Append(tags, created), found |-> TRUE]
      [] Len(path) = 2 /\ i # 0 /\ method = "GET" ->
            [r |-> Resp(200, EncodeTag(tags[i]), FALSE), tags |-> tags, found |-> TRUE]
      [] Len(path) = 2 /\ i # 0 /\ method = "DELETE" ->
            [r |-> Resp(200, NoBody, FALSE), tags |-> Without(i), found |-> TRUE]
      [] OTHER -> [r |-> Resp(404, NoBody, FALSE), tags |-> tags, found |-> FALSE]

\* auth.go:161  base.RoundTrip(req2): the clone reaches the server, which answers
Server ==
    LET hd == headers[req2.header]
        a == Handle(req2.method, req2.path, req2.body, hd.Authorization)
    IN
    /\ epc = "sent"
    /\ received' = [method |-> req2.method, path |-> req2.path, body |-> req2.body,
                    auth |-> hd.Authorization, found |-> a.found]
    /\ tags' = a.tags
    /\ resp' = a.r
    /\ op' = [op EXCEPT !.sends = @ + 1]
    /\ epc' = "answered"
    /\ UNCHANGED <<token, tokenExpiry, now, loginCount, req, req2, headers,
                   out, opCount>>
    /\ UNCHANGED <<cvars, ctxDone, ovars>>

\* client.go:108-119  c.httpClient.Do and io.ReadAll give whatever the network
\* gives: a transport error, any status, any body, a body that breaks off.
\* The request left the client; the server's state is not followed here.
Network(r) ==
    /\ epc = "sent"
    /\ resp' = r
    /\ op' = [op EXCEPT !.sends = @ + 1]
    /\ epc' = "answered"
    /\ UNCHANGED <<token, tokenExpiry, now, loginCount, req, req2, headers,
                   tags, received, out, opCount>>
    /\ UNCHANGED <<cvars, ctxDone, ovars>>

\* client.go:108-136  doRequest reads the response and returns; the operation
\* returns the error, or the decoded result (tag.go:45-47)
Return ==
    LET o == RequestOutcome(resp, req.sink # "nil") IN
    /\ epc = "answered"
    /\ out' = [set |-> TRUE, err |-> o.err, result |-> o.result]
    /\ epc' = "idle"
    /\ token' = AfterResponse(token, tokenExpiry, resp)[1]
    /\ tokenExpiry' = AfterResponse(token, tokenExpiry, resp)[2]
    /\ UNCHANGED <<now, loginCount, op, req, req2, headers, tags, received,
                   resp, opCount>>
    /\ UNCHANGED <<cvars, ctxDone, ovars>>

\* What the network may hand back: the answers above, and bodies that break
\* off while being read ("<ht" is what was read of "<html>").
NetworkResponses ==
    ResourceResponses \cup {Resp(500, "<ht", TRUE), Resp(204, NoBody, FALSE),
                            Resp(401, NoBody, FALSE)}

PostMethods == {"POST", "PUT", "PATCH"}
JSONTexts == {"{\"key\":\"value\"}", EmptyObject}
PostBodies ==
    {NilBody, ChanBody} \cup {ReaderOf(b) : b \in JSONTexts}
        \cup {TagBody(Tag(0, "testing", "#FF0000"))}
NewTags == {Tag(0, "testing", "#FF0000"), Tag(0, "production", "")}

ExecNext ==
    \/ \E m \in PostMethods, b \in PostBodies : Post(m, b)
    \/ \E t \in NewTags : CreateTag(t)
    \/ \E id \in 1..MaxOps : GetTag(id)
    \/ \E id \in 1..MaxOps : DeleteTag(id)
    \/ \E m \in MonitorIDs, t \in 1..2 : DeleteMonitorTag(m, t)
    \/ \E r \in LoginResponses : RoundTrip(r)
    \/ Server
    \/ \E r \in NetworkResponses : Network(r)
    \/ Return

ExecSpec == Init /\ [][ExecNext]_allvars

\* ------------------------------------------------- constructing the client
ConfigErrorNoPassword(cfg) ==
    CASE cfg.BaseURL = "" -> "base URL is required"
      [] cfg.Username = "" -> "username is required"
      [] OTHER -> ""

\* client.go:36-44  the validation in New: the error's text, "" when none
ConfigError(cfg) ==
    CASE cfg.BaseURL = "" -> "base URL is required"
      [] cfg.Username = "" -> "username is required"
      [] cfg.Password = "" -> "password is required"
      [] OTHER -> ""

\* client.go:47-49  the default timeout
TimeoutOf(cfg) == IF cfg.Timeout = 0 THEN DefaultTimeout ELSE cfg.Timeout

\* client.go:51-58  the base client: the custom one, or a new one with the
\* timeout and no Transport; config.InsecureHTTPS is not read
BaseHTTPClient(cfg) ==
    IF cfg.CustomHTTPClient = <<>>
    THEN HTTPClient(NilTransport, TimeoutOf(cfg))
    ELSE cfg.CustomHTTPClient[1]

\* auth.go:32-45  NewAuthClient, handed a non-nil client
NewAuthClient(baseURL, username, password, httpClient) ==
    [baseURL |-> baseURL, username |-> username, password |-> password,
     httpClient |-> httpClient]

\* auth.go:127-135  AuthenticatedClient: an authTransport over the base
\* client's Transport, with the base client's timeout
AuthenticatedClient(a) ==
    HTTPClient(<<"auth">> \o a.httpClient.Transport, a.httpClient.Timeout)

\* client.go:34-77  New
New(cfg) ==
    LET withDefaults == [cfg EXCEPT !.Timeout = TimeoutOf(cfg)]
        authClient == NewAuthClient(cfg.BaseURL, cfg.Username, cfg.Password,
                                    BaseHTTPClient(cfg))
    IN
    /\ config = <<>>
    /\ newErr' = ConfigError(cfg)
    /\ IF ConfigError(cfg) # ""
       THEN /\ config' = <<cfg>>
            /\ client' = <<>>
       ELSE /\ config' = <<withDefaults>>
            /\ client' = <<[config |-> withDefaults, authClient |-> authClient,
                            httpClient |-> AuthenticatedClient(authClient)]>>
    /\ conn' = conn
    /\ UNCHANGED <<vars, evars, ctxDone, rvars>>

\* crypto/tls: a nil Transport stands for http.DefaultTransport (auth.go:155-158
\* for the authTransport's base), which verifies certificates, as does a
\* user's transport unless it sets InsecureSkipVerify
VerifiesCertificates(t) == t # <<"insecure">>

\* http.Client.Do through transport t: every authTransport layer calls GetToken
\* and sets Authorization (auth.go:144-161), then the innermost transport puts
\* the request on the wire
RECURSIVE Wire(_, _, _, _)
Wire(kind, t, auth, getTokens) ==
    IF t # <<>> /\ Head(t) = "auth"
    THEN Wire(kind, Tail(t), TRUE, getTokens + 1)
    ELSE [kind |-> kind, via |-> t, verify |-> VerifiesCertificates(t),
          auth |-> auth, getTokens |-> getTokens]

LoginClientAuthenticated(c) == c.httpClient

\* auth.go:87  a.httpClient.Do(req)
LoginClient(c) == c.authClient.httpClient

\* client.go:108  c.httpClient.Do(req)
ResourceClient(c) == c.httpClient

\* auth.go:72-87  the login request: built without Authorization and sent
LoginExchange ==
    /\ client # <<>>
    /\ conn' = Wire("login", LoginClient(client[1]).Transport, FALSE, 0)
    /\ UNCHANGED <<config, client, newErr>>
    /\ UNCHANGED <<vars, evars, ctxDone, rvars>>

\* client.go:94-108  a resource request: built without Authorization and sent
ResourceRequest ==
    /\ client # <<>>
    /\ conn' = Wire("resource", ResourceClient(client[1]).Transport, FALSE, 0)
    /\ UNCHANGED <<config, client, newErr>>
    /\ UNCHANGED <<vars, evars, ctxDone, rvars>>

NewNext ==
    \/ \E cfg \in Configs : New(cfg)
    \/ LoginExchange
    \/ ResourceRequest

NewSpec == Init /\ [][NewNext]_allvars

\* ------------------------------------------- StatusPageResource.Create
\* status_page.go:99-110, client.go:87  the body CreateStatusPage sends: it
\* marshals the request and posts a reader over the bytes, which doRequest
\* marshals again
CreateStatusPageBody(slug, title) == Marshal(ReaderOf(EncodeAdd(slug, title))).text

\* status_page.go:113-125, client.go:87  the body UpdateStatusPage sends
UpdateStatusPageBody(title) == Marshal(ReaderOf(EncodeSave(title))).text

\* status_page_test.go:214-221  the position of the page with this slug, or 0
PageIndex(slug) ==
    IF \E i \in 1..Len(pages) : pages[i].Slug = slug
    THEN CHOOSE i \in 1..Len(pages) :
            pages[i].Slug = slug /\ \A j \in 1..(i - 1) : pages[j].Slug # slug
    ELSE 0

\* status_page_test.go:106-147  the mock's POST /status-pages
HandleAddPage(body) ==
    LET d == DecodeAdd(body) IN
    CASE ~d.ok -> [status |-> 400, pages |-> pages, page |-> NoPage]
      [] d.ok /\ PageIndex(d.value.Slug) # 0 ->
            [status |-> 409, pages |-> pages, page |-> NoPage]
      [] OTHER ->
            [status |-> 200, page |-> NoPage,
             pages |-> Append(pages, Page(Len(pages) + 1, d.value.Slug, d.value.Title))]

\* status_page_test.go:151-237  the mock's GET /status-pages/{slug}: with an
\* empty slug the path has one part only
HandleGetPage(slug) ==
    CASE slug = "" -> [status |-> 400, pages |-> pages, page |-> NoPage]
      [] slug # "" /\ PageIndex(slug) = 0 ->
            [status |-> 404, pages |-> pages, page |-> NoPage]
      [] OTHER -> [status |-> 200, pages |-> pages, page |-> pages[PageIndex(slug)]]

\* status_page_test.go:151-286  the mock's POST /status-pages/{slug}
HandleSavePage(slug, body) ==
    LET d == DecodeSave(body)
        i == PageIndex(slug)
    IN
    CASE slug = "" -> [status |-> 400, pages |-> pages, page |-> NoPage]
      [] slug # "" /\ i = 0 -> [status |-> 404, pages |-> pages, page |-> NoPage]
      [] slug # "" /\ i # 0 /\ ~d.ok ->
            [status |-> 400, pages |-> pages, page |-> NoPage]
      [] OTHER ->
            [status |-> 200, page |-> NoPage,
             pages |-> IF d.Title = "" THEN pages
                       ELSE [pages EXCEPT ![i].Title = d.Title]]

\* What becomes of a client call on the way: it reaches the server and the
\* answer comes back, it fails before it reaches the server (login or
\* transport failure), or the server handles it and the answer is lost.
NetCases == {"ok", "lost", "cut"}

\* client.go:108-124  the call returns an error
CallFailed(net, status) == net # "ok" \/ ~StatusSuccess(status)

Plans == [Slug : Slugs \ {""}, Title : Titles \ {""}]

\* part_005:185-193  Create reads the plan; on a diagnostic it returns
Create_Begin(p, planOK) ==
    /\ rpc = "idle"
    /\ creates < MaxCreates
    /\ creates' = creates + 1
    /\ plan' = p
    /\ calls' = <<>>
    /\ oks' = 0
    /\ tfstate' = <<>>
    /\ createdPage' = NoPage
    /\ IF planOK
       THEN diags' = <<>> /\ rpc' = "create"
       ELSE diags' = <<"plan">> /\ rpc' = "idle"
    /\ pages' = pages
    /\ UNCHANGED <<vars, evars, ctxDone, nvars>>

\* part_005:195-210  CreateStatusPage with slug and title
Create_CreateStatusPage(net) ==
    LET a == HandleAddPage(CreateStatusPageBody(plan.Slug, plan.Title)) IN
    /\ rpc = "create"
    /\ calls' = Append(calls, "CreateStatusPage")
    /\ pages' = IF net = "lost" THEN pages ELSE a.pages
    /\ IF CallFailed(net, a.status)
       THEN /\ diags' = Append(diags, "Unable to create status page")
            /\ rpc' = "idle"
            /\ oks' = oks
       ELSE /\ diags' = diags
            /\ rpc' = "get"
            /\ oks' = oks + 1
    /\ UNCHANGED <<plan, tfstate, createdPage, creates>>
    /\ UNCHANGED <<vars, evars, ctxDone, nvars>>

\* part_005:216-221  GetStatusPage by the planned slug
Create_GetStatusPage(net) ==
    LET a == HandleGetPage(plan.Slug) IN
    /\ rpc = "get"
    /\ calls' = Append(calls, "GetStatusPage")
    /\ pages' = IF net = "lost" THEN pages ELSE a.pages
    /\ IF CallFailed(net, a.status)
       THEN /\ diags' = Append(diags, "Unable to retrieve created status page")
            /\ rpc' = "idle"
            /\ oks' = oks
            /\ createdPage' = createdPage
       ELSE /\ diags' = diags
            /\ rpc' = "update"
            /\ oks' = oks + 1
            /\ createdPage' = a.page
    /\ UNCHANGED <<plan, tfstate, creates>>
    /\ UNCHANGED <<vars, evars, ctxDone, nvars>>

\* part_005:223-300  UpdateStatusPage with the other attributes, then
\* data.ID = createdPage.ID and resp.State.Set
Create_UpdateStatusPage(net) ==
    LET a == HandleSavePage(plan.Slug, UpdateStatusPageBody(plan.Title)) IN
    /\ rpc = "update"
    /\ calls' = Append(calls, "UpdateStatusPage")
    /\ pages' = IF net = "lost" THEN pages ELSE a.pages
    /\ rpc' = "idle"
    /\ IF CallFailed(net, a.status)
       THEN /\ diags' = Append(diags, "Unable to update status page attributes")
            /\ oks' = oks
            /\ tfstate' = tfstate
       ELSE /\ diags' = diags
            /\ oks' = oks + 1
            /\ tfstate' = <<Page(createdPage.ID, plan.Slug, plan.Title)>>
    /\ UNCHANGED <<plan, createdPage, creates>>
    /\ UNCHANGED <<vars, evars, ctxDone, nvars>>

CreateNext ==
    \/ \E p \in Plans, planOK \in BOOLEAN : Create_Begin(p, planOK)
    \/ \E net \in NetCases : Create_CreateStatusPage(net)
    \/ \E net \in NetCases : Create_GetStatusPage(net)
    \/ \E net \in NetCases : Create_UpdateStatusPage(net)

CreateSpec == Init /\ [][CreateNext]_allvars

\* ------------------------------------------------------------------ claims
\* The followed caller's operation has returned.
Returned(name) == epc = "idle" /\ out.set /\ op.name = name

\* The followed caller's doRequest got an answer from the network and returned.
Answered == epc = "idle" /\ out.set /\ op.sends = 1 /\ ~resp.netErr
Outside2xx(status) == status < 200 \/ status >= 300
HasSink == req.sink # "nil"

\* C11: CreateTag with payload P that the server answered and that returns no
\* error has sent P's name and color to POST /tags and returns a Tag with P's
\* name and color and an id the server assigned, which is the tag the server
\* then holds under that id.
C11_CreateReturnsPayload ==
    (Returned("CreateTag") /\ out.err = NoErr /\ received.found)
    => /\ received.method = "POST" /\ received.path = <<"tags">>
       /\ received.body = EncodeTag(op.tag)
       /\ \E i \in 1..Len(tags) :
             /\ tags[i].ID # 0
             /\ out.result = <<Tag(tags[i].ID, op.tag.Name, op.tag.Color)>>
             /\ tags[i] = out.result[1]

\* C12: when Post, Put or Patch is given a request body carrying JSON text B,
\* the body of the request the server receives is B.
C12_BodyReceivedIsBodyGiven ==
    (op.name = "Post" /\ op.body.kind = "reader" /\ received.method # "none")
    => /\ received.method \in PostMethods
       /\ received.body = op.body.data

GetTokenSteps ==
    {"gt_rlock", "gt_read_token", "gt_read_expiry", "gt_runlock", "gt_check",
     "rt_lock", "rt_check", "rt_wait", "rt_store_token", "rt_store_expiry", "gt_ret"}
ReadSteps == {"gt_read_token", "gt_read_expiry", "gt_runlock"}
RefreshSteps == {"rt_check", "rt_wait", "rt_store_token", "rt_store_expiry"}
SnapshotTaken == (GetTokenSteps \ {"gt_rlock"}) \ {"gt_read_token", "gt_read_expiry"}

InGetToken(p) == pc[p] \in GetTokenSteps
Exchanged(p) == xid[p] # 0
StartedStale(p) == start[p].state \in {"empty", "expired"}
Stored(tok) == \E w \in written : w[1] = tok
Is2xx(status) == status >= 200 /\ status < 300

\* Two calls whose GetToken runs at the same time, both begun with no valid
\* token cached.
ConcurrentStale(p, q) ==
    /\ p # q
    /\ InGetToken(p) /\ InGetToken(q)
    /\ StartedStale(p) /\ StartedStale(q)

\* C1 as stated: among concurrent GetToken calls that began with no valid token
\* cached, at most one performs a login exchange.
C1_AtMostOneExchange ==
    \A p, q \in Procs : ConcurrentStale(p, q) => ~(Exchanged(p) /\ Exchanged(q))

\* C1 amended: among concurrent GetToken calls that began with no valid token
\* cached, an exchange that succeeded is followed by another caller's exchange
\* only when the token it stored has reached its expires_at; until then the
\* other callers return the stored token from the double check.
C1_OneSuccessfulExchangeUntilExpiry ==
    \A p, q \in Procs :
        (/\ ConcurrentStale(p, q)
         /\ Exchanged(p) /\ Exchanged(q) /\ xid[p] < xid[q]
         /\ tokenResp[p] # EmptyToken)
        => \E w \in written : w[1] = tokenResp[p] /\ w[2] <= now

C1_Witness ==
    \E p, q \in Procs :
        /\ ConcurrentStale(p, q)
        /\ pc[p] = "gt_ret" /\ Exchanged(p) /\ got[p].tok = tokenResp[p]
        /\ tokenResp[p] # EmptyToken
        /\ pc[q] = "gt_ret" /\ ~Exchanged(q) /\ snapTok[q] = EmptyToken
        /\ got[q] = [set |-> TRUE, tok |-> tokenResp[p], err |-> NoErr]
        /\ loginCount = 1

C3_AuthFailureSendsNothing ==
    /\ \A p \in Procs : wire[p].sent => wire[p].tokenErr = NoErr
    /\ (ret.proc # NoProc /\ ret.tokenErr # NoErr)
        => /\ ret.err = Err("execute", ret.tokenErr.kind, ret.tokenErr.code)
           /\ ret.result = NoResult
           /\ ~wire[ret.proc].sent

C3_Witness ==
    /\ ret.proc # NoProc
    /\ ret.tokenErr = Err("auth_status", "nil", 401)
    /\ ret.err = Err("execute", "auth_status", 401)
    /\ ~wire[ret.proc].sent

\* C4 as stated: the bearer token of every request handed to the base transport
\* is the token held in the Token Store at the moment of dispatch.
C4_BearerIsStoreAtDispatch ==
    [][\A p \in Procs :
          (pc[p] = "gt_ret" /\ pc'[p] = "rq_wait") => wire'[p].auth = Bearer(token')]_vars

\* C4 amended: the bearer token of every request handed to the base transport
\* is a non-empty token a successful login exchange stored; it is the token held
\* in the Token Store unless that token has reached its expires_at, when a
\* concurrent refresh may have replaced it after GetToken returned.
C4_BearerIsStoredToken ==
    \A p \in Procs :
        pc[p] = "rq_wait"
        => \E w \in written :
              /\ w[1] # EmptyToken
              /\ wire[p].auth = Bearer(w[1])
              /\ (w[1] = token \/ now >= w[2])

C4_Witness ==
    \E p \in Procs :
        /\ pc[p] = "rq_wait"
        /\ wire[p].sent
        /\ wire[p].auth # Bearer(token)
        /\ \E w \in written : wire[p].auth = Bearer(w[1])

C6_SnapshotIsOneRefreshsPair ==
    /\ \A p \in Procs :
          pc[p] \in SnapshotTaken
          => <<snapTok[p], snapExp[p]>> \in written \cup {<<EmptyToken, ZeroTime>>}
    /\ \A p \in Procs : pc[p] \in ReadSteps => (p \in readers /\ writer = NoProc)
    /\ \A p \in Procs : pc[p] \in RefreshSteps => (writer = p /\ readers = {})

C6_Witness ==
    \E p, q \in Procs :
        /\ pc[p] = "gt_check"
        /\ snapTok[p] # EmptyToken
        /\ <<snapTok[p], snapExp[p]>> \in written
        /\ pc[q] = "gt_ret" /\ Exchanged(q) /\ got[q].tok = snapTok[p]

\* C7: refreshToken holds the write lock from the double check to the store, so
\* at most one login exchange is in flight and no GetToken reads the pair then.
C7_RefreshIsExclusive ==
    /\ Cardinality({p \in Procs : pc[p] = "rt_wait"}) <= 1
    /\ \A p \in Procs :
          pc[p] \in RefreshSteps
          => /\ writer = p
             /\ \A q \in Procs \ {p} : pc[q] \notin ReadSteps \cup RefreshSteps

C7_Witness ==
    \E p, q \in Procs :
        /\ pc[p] = "rt_wait"
        /\ pc[q] \in {"gt_rlock", "rt_lock"}

\* C8: a failed login exchange leaves token and expiry as they were and leaves
\* the store stale for the double check; and a call that begins after a failed
\* exchange with no valid token cached does not return without a fresh exchange
\* of its own, unless it returns the token of a concurrent caller's later one.
C8_FailedLoginNotCached ==
    [][\A p \in Procs :
          /\ (pc[p] = "rt_wait" /\ pc'[p] = "gt_ret")
              => /\ token' = token /\ tokenExpiry' = tokenExpiry
                 /\ written' = written
                 /\ got'[p].tok = EmptyToken /\ got'[p].err # NoErr
                 /\ ~StillValid(token', tokenExpiry', now')
          /\ (/\ pc[p] # "gt_ret" /\ pc'[p] = "gt_ret"
              /\ start[p].afterFail /\ StartedStale(p)
              /\ ~Exchanged(p)')
              => /\ got'[p].err = NoErr
                 /\ got'[p].tok # start[p].tok
                 /\ Stored(got'[p].tok)]_vars

C8_Witness ==
    \E p \in Procs :
        /\ pc[p] = "gt_ret"
        /\ start[p].afterFail /\ StartedStale(p)
        /\ Exchanged(p) /\ xid[p] = 2
        /\ written = {}

\* What the claim C9 says of the login response the step just taken received.
C9_Holds(accepted) ==
    \A p \in Procs :
        (loginResp.xid # 0 /\ loginResp.xid = xid[p] /\ ~loginResp.r.netErr)
        => /\ (/\ pc[p] = "gt_ret"
               /\ got[p].err = Err("auth_status", "nil", loginResp.r.status))
              <=> ~accepted
           /\ (accepted /\ loginResp.r.body = "token")
              => /\ pc[p] = "rt_store_token"
                 /\ tokenResp[p] = <<xid[p]>>

\* The token a login response was accepted with is stored and returned.
AcceptedTokenIsStoredAndReturned ==
    \A p \in Procs :
        (pc[p] = "gt_ret" /\ tokenResp[p] # EmptyToken)
        => /\ got[p] = [set |-> TRUE, tok |-> tokenResp[p], err |-> NoErr]
           /\ Stored(tokenResp[p])

\* C9 as stated: the login exchange fails with the status-code error exactly
\* when the status is not 2xx, and a 2xx response with a non-empty access_token
\* has its token stored and returned.
C9_FailsIffNon2xx ==
    C9_Holds(Is2xx(loginResp.r.status)) /\ AcceptedTokenIsStoredAndReturned

\* C9 amended: the login exchange fails with the status-code error exactly when
\* the status is not 200, and a 200 response with a non-empty access_token has
\* its token stored and returned.
C9_FailsIffNot200 ==
    C9_Holds(loginResp.r.status = 200) /\ AcceptedTokenIsStoredAndReturned

C9_Witness ==
    \E p \in Procs :
        /\ loginResp = [xid |-> xid[p], r |-> Resp(201, "token", FALSE)]
        /\ pc[p] = "gt_ret"
        /\ got[p].err = Err("auth_status", "nil", 201)

\* C10: no resource request is handed to the base transport before a login
\* exchange has succeeded; the first call on a fresh client makes exactly one
\* login exchange and then sends one request with the token of that exchange,
\* and when it returns no error its result is decoded from the response body.
C10_FirstCallLogsInOnce ==
    /\ \A p \in Procs :
          wire[p].sent
          => \E w \in written : w[1] # EmptyToken /\ wire[p].auth = Bearer(w[1])
    /\ \A p \in Procs :
          (callCount = 1 /\ pc[p] = "rq_wait")
          => /\ loginCount = 1
             /\ token = <<1>>
             /\ wire[p] = [sent |-> TRUE, auth |-> Bearer(<<1>>), tokenErr |-> NoErr]
    /\ (callCount = 1 /\ ret.proc # NoProc /\ ret.err = NoErr)
        => /\ loginCount = 1
           /\ token = <<1>>
           /\ ret.result \in {NoResult, <<[status |-> "success"]>>}

C10_Witness ==
    /\ callCount = 1
    /\ loginCount = 1
    /\ ret.proc # NoProc
    /\ ret.err = NoErr
    /\ ret.result = <<[status |-> "success"]>>

\* C13: for every resource response whose status is outside [200, 300),
\* doRequest returns an error that embeds the status code and the raw body text,
\* and writes nothing to the result.
C13_Non2xxIsAPIError ==
    (Answered /\ Outside2xx(resp.status))
    => /\ out.err = Err("status", resp.body, resp.status)
       /\ out.result = NoResult

C13_Witness ==
    /\ Answered /\ HasSink
    /\ resp = Resp(404, "<html>", FALSE)
    /\ out.err = Err("status", "<html>", 404)

\* What doRequest returns on this response when reading the body had succeeded.
AfterSuccessfulRead == RequestOutcome([resp EXCEPT !.readErr = FALSE], HasSink)

\* C14 as stated: when reading the body fails, a non-2xx status yields the API
\* error and a 2xx status lets the call proceed exactly as after a successful
\* read.
C14_ReadFailureNeverFailsTheCall ==
    (Answered /\ resp.readErr)
    => /\ Outside2xx(resp.status) => out.err = Err("status", resp.body, resp.status)
       /\ ~Outside2xx(resp.status)
          => out = [set |-> TRUE, err |-> AfterSuccessfulRead.err,
                    result |-> AfterSuccessfulRead.result]

\* C14 amended: when reading the body fails, the status-code check still comes
\* first: a non-2xx status yields the API error; a 2xx status returns no error
\* when the result argument is nil, and with a non-nil result argument the call
\* fails with a read error and decodes nothing.
C14_ReadFailureFailsOnlyDecoding ==
    (Answered /\ resp.readErr)
    => /\ out.result = NoResult
       /\ out.err = CASE Outside2xx(resp.status) -> Err("status", resp.body, resp.status)
                      [] ~HasSink -> NoErr
                      [] OTHER -> Err("read", "nil", 0)

C14_Witness ==
    /\ Answered /\ HasSink
    /\ resp = Resp(200, "{\"status\":\"success\"}", TRUE)
    /\ out.err = Err("read", "nil", 0)

\* What C15 says of a 2xx response that is decoded (decoding) or not.
C15_Holds(decoding) ==
    (Answered /\ ~Outside2xx(resp.status))
    => /\ (HasSink /\ decoding)
          => IF Unmarshal(resp.body).ok
             THEN /\ out.err = NoErr
                  /\ out.result = <<Unmarshal(resp.body).value>>
             ELSE /\ out.err = Err("decode", resp.body, 0)
                  /\ out.result = NoResult
       /\ ~HasSink => (out.err = NoErr /\ out.result = NoResult)

\* C15 as stated: on a 2xx response with a non-nil result argument doRequest
\* returns no error and the decoded value exactly when the body decodes,
\* otherwise an error embedding the decode failure and the raw body; with a nil
\* result argument every 2xx response returns no error and nothing is decoded.
C15_DecodesEvery2xx == C15_Holds(TRUE)

\* C15 amended: the same, for a 2xx response whose body was read without a
\* read failure.
C15_DecodesEvery2xxThatWasRead == C15_Holds(~resp.readErr)

C15_Witness ==
    /\ Answered /\ HasSink
    /\ resp = Resp(200, "<html>", FALSE)
    /\ out.err = Err("decode", "<html>", 0)

\* C16: when marshaling a non-nil requestBody fails, doRequest returns the
\* marshal error at once: no login exchange is made, no request is cloned or
\* sent, nothing reaches the server, and the Token Store is as it was.
C16_MarshalFailureIsLocal ==
    [][/\ (opCount' # opCount /\ op'.body.kind = "chan")
           => /\ out' = [set |-> TRUE, err |-> Err("marshal", "nil", 0),
                         result |-> NoResult]
              /\ epc' = "idle"
              /\ req2' = NoReq /\ received' = NoReceived /\ resp' = NoResp
              /\ loginCount' = loginCount
              /\ token' = token /\ tokenExpiry' = tokenExpiry
              /\ tags' = tags
       /\ op'.body.kind = "chan"
           => (epc' = "idle" /\ op'.logins = 0 /\ op'.sends = 0)]_allvars

C16_Witness ==
    /\ Returned("Post") /\ op.body = ChanBody
    /\ out.err = Err("marshal", "nil", 0)
    /\ token # EmptyToken /\ loginCount = 1

\* C17: RoundTrip never modifies the request it was given: when it has handed
\* the clone to the base transport, and when it has returned the
\* authentication error, the original request and its header map are as they
\* were before the call, with no Authorization header; only the clone, with a
\* header map of its own, carries the bearer header.
C17_OriginalRequestUntouched ==
    [][/\ opCount' = opCount
           => /\ req' = req
              /\ headers'[req.header] = headers[req.header]
              /\ headers'[req.header].Authorization = NoAuth
       /\ (epc = "built" /\ epc' # "built")
           => /\ req2'.header # req.header
              /\ epc' = "sent"
                  => headers'[req2'.header] =
                        [headers[req.header] EXCEPT !.Authorization = Bearer(token')]
              /\ epc' = "idle"
                  => /\ op'.tokenErr # NoErr
                     /\ headers'[req2'.header] = headers[req.header]]_allvars

C17_Witness ==
    /\ epc = "sent"
    /\ headers[req.header].Authorization = NoAuth
    /\ headers[req2.header].Authorization = Bearer(token)
    /\ token # EmptyToken

\* C18: the first DeleteTag of an id the server holds returns no error; a
\* second DeleteTag of the same id returns the API error with status 404, and
\* so does a GetTag of the deleted id.
C18_DeleteTwice ==
    LET deleted == [name |-> "DeleteTag", id |-> op.id, ok |-> TRUE] IN
    /\ (Returned("DeleteTag") /\ received.found) => out.err = NoErr
    /\ (Returned("DeleteTag") /\ op.prev = deleted /\ received.method # "none")
        => out.err = Err("status", NoBody, 404)
    /\ (Returned("GetTag") /\ op.prev = deleted /\ received.method # "none")
        => out.err = Err("status", NoBody, 404)

C18_Witness ==
    /\ Returned("DeleteTag")
    /\ op.prev = [name |-> "DeleteTag", id |-> op.id, ok |-> TRUE]
    /\ received.method = "DELETE"
    /\ out.err = Err("status", NoBody, 404)

\* C19: the expiry a successful login exchange stores is the instant at which
\* refreshToken stores the token plus exactly 59 minutes, the expiry changes at
\* no other step, and GetToken returns a token no later than 59 minutes after
\* that instant.
C19_ExpiryIs59MinutesAfterIssuance ==
    [][\A p \in Procs :
          /\ (pc[p] = "rt_store_expiry" /\ pc'[p] = "gt_ret")
              => /\ tokenExpiry' = now + 59
                 /\ now' = now
                 /\ token' = tokenResp[p] /\ got'[p].tok = token'
                 /\ written' = written \cup {<<token', now + 59>>}
          /\ (\A q \in Procs : pc[q] # "rt_store_expiry") => tokenExpiry' = tokenExpiry
          /\ (pc[p] # "gt_ret" /\ pc'[p] = "gt_ret" /\ got'[p].err = NoErr)
              => \E w \in written' : w[1] = got'[p].tok /\ now' <= w[2]]_vars

C19_Witness ==
    \E p \in Procs :
        /\ pc[p] = "gt_ret" /\ ~Exchanged(p)
        /\ got[p].tok = token /\ token # EmptyToken
        /\ now = tokenExpiry /\ tokenExpiry = 1 + 59

\* C20: one call makes at most one login exchange and sends at most one
\* resource request; a failed token fetch sends nothing; every failure is
\* returned at once, and a call that has returned does nothing more.
C20_NothingIsRetried ==
    [][/\ op'.logins <= 1 /\ op'.sends <= 1
       /\ loginCount' <= opCount'
       /\ op'.tokenErr # NoErr
           => /\ op'.sends = 0 /\ epc' = "idle"
              /\ out' = [set |-> TRUE, result |-> NoResult,
                         err |-> Err("execute", op'.tokenErr.kind, op'.tokenErr.code)]
       /\ (out'.set /\ out'.err # NoErr) => (epc' = "idle" /\ out'.result = NoResult)
       /\ epc = "idle" => opCount' = opCount + 1]_allvars

C20_Witness ==
    /\ epc = "idle" /\ out.set
    /\ resp.netErr
    /\ out.err = Err("execute", "transport", 0)
    /\ op.logins = 1 /\ op.sends = 1

\* What New was handed lacks the base URL, the username or the password.
Missing(cfg) == cfg.BaseURL = "" \/ cfg.Username = "" \/ cfg.Password = ""
ConfigurationErrors ==
    {"base URL is required", "username is required", "password is required"}

\* C22: New returns a configuration error and no client exactly when the base
\* URL, the username or the password is empty; otherwise a client and no error.
C22_NewFailsIffFieldMissing ==
    config # <<>>
    => /\ (newErr \in ConfigurationErrors /\ client = <<>>) <=> Missing(config[1])
       /\ (newErr = "" /\ client # <<>>) <=> ~Missing(config[1])

C22_Witness ==
    /\ config # <<>>
    /\ config[1].BaseURL # "" /\ config[1].Username # "" /\ config[1].Password = ""
    /\ newErr = "password is required"
    /\ client = <<>>

\* C23: with InsecureHTTPS set (and no custom client) the client New built
\* sends login and resource requests over a transport that skips certificate
\* verification; with the flag false certificates are verified.
C23_InsecureFlagSkipsVerification ==
    (conn.kind # "none" /\ config[1].CustomHTTPClient = <<>>)
    => (conn.verify <=> ~config[1].InsecureHTTPS)

\* C24: the login exchange goes through the plain client: no authTransport
\* layer handles it, so it carries no Authorization header and calls GetToken
\* no further time; resource requests pass exactly one authTransport.
C24_LoginUsesPlainClient ==
    /\ conn.kind = "login"
        => /\ conn.auth = FALSE
           /\ conn.getTokens = 0
           /\ conn.via = BaseHTTPClient(config[1]).Transport
    /\ conn.kind = "resource"
        => /\ conn.auth = TRUE
           /\ conn.getTokens = 1
           /\ conn.via = BaseHTTPClient(config[1]).Transport

C24_Witness ==
    /\ conn.kind = "login"
    /\ conn.via = <<"insecure">>
    /\ client # <<>> /\ client[1].httpClient.Transport = <<"auth", "insecure">>

C25_GetTokenReturns ==
    /\ [](\A p \in Procs :
            /\ pc[p] = "rt_lock" => p \notin readers
            /\ pc[p] \notin RefreshSteps => writer # p)
    /\ \A p \in Procs : (pc[p] \in GetTokenSteps) ~> (pc[p] = "gt_ret")

C25_Witness ==
    \E p, q \in Procs :
        /\ writer = q /\ pc[q] = "rt_wait"
        /\ pc[p] = "rt_lock" /\ p \notin readers
        /\ xid[q] = loginCount /\ xid[p] = 0

\* C26: GetToken returns a non-empty token and no error, or the empty token
\* and an error; the Authorization header of every request handed to the base
\* transport carries a non-empty token that a successful login exchange stored.
C26_TokenOrError ==
    /\ \A p \in Procs :
          got[p].set
          => \/ got[p].tok # EmptyToken /\ got[p].err = NoErr
             \/ got[p].tok = EmptyToken /\ got[p].err # NoErr
    /\ \A p \in Procs :
          wire[p].sent
          => /\ wire[p].auth # Bearer(EmptyToken)
             /\ \E k \in 1..loginCount :
                   /\ wire[p].auth = Bearer(<<k>>)
                   /\ Stored(<<k>>)

C26_Witness ==
    \E p \in Procs :
        /\ pc[p] = "gt_ret"
        /\ got[p] = [set |-> TRUE, tok |-> EmptyToken,
                     err |-> Err("auth_empty", "nil", 0)]
        /\ loginResp.r = Resp(200, "empty", FALSE)

\* C27: a token returned from the cache, by the fast path or by the double
\* check, is non-empty and the check that returned it ran no later than the
\* expires_at stored with it; a login exchange starts only from the double
\* check, at an instant when the store is empty or expires_at has been reached.
C27_ChecksAgree ==
    [][\A p \in Procs :
          /\ (pc[p] = "gt_check" /\ pc'[p] = "gt_ret")
              => /\ got'[p] = [set |-> TRUE, tok |-> snapTok[p], err |-> NoErr]
                 /\ snapTok[p] # EmptyToken
                 /\ now <= snapExp[p]
                 /\ <<snapTok[p], snapExp[p]>> \in written
          /\ (pc[p] = "rt_check" /\ pc'[p] = "gt_ret")
              => /\ got'[p] = [set |-> TRUE, tok |-> token, err |-> NoErr]
                 /\ token # EmptyToken
                 /\ now <= tokenExpiry
                 /\ <<token, tokenExpiry>> \in written
          /\ (pc[p] # "rt_wait" /\ pc'[p] = "rt_wait")
              => /\ pc[p] = "rt_check"
                 /\ token = EmptyToken \/ now >= tokenExpiry]_vars

C27_Witness ==
    \E q \in Procs :
        /\ pc[q] = "rt_wait"
        /\ token # EmptyToken
        /\ now = tokenExpiry

\* C28: a response with a status outside 2xx, 401 among them, makes the call
\* return the API error and leaves token and expires_at as they were; the next
\* call, made before expires_at, makes no login exchange and sends its request
\* with the same token.
C28_Non2xxKeepsToken ==
    [][/\ (/\ epc = "answered" /\ epc' = "idle"
           /\ ~resp.netErr /\ Outside2xx(resp.status))
           => /\ out'.err = Err("status", resp.body, resp.status)
              /\ token' = token /\ tokenExpiry' = tokenExpiry
              /\ loginCount' = loginCount
       /\ (/\ epc = "built" /\ epc' # "built"
           /\ op.prevStatus # 0 /\ now <= tokenExpiry)
           => /\ op'.logins = 0 /\ loginCount' = loginCount
              /\ token' = token /\ tokenExpiry' = tokenExpiry
              /\ epc' = "sent"
              /\ headers'[req2'.header].Authorization = Bearer(token)]_allvars

C28_Witness ==
    /\ epc = "sent"
    /\ op.prevStatus = 401
    /\ op.logins = 0 /\ loginCount = 1
    /\ headers[req2.header].Authorization = Bearer(token)
    /\ token = <<1>>

\* C29: the request DeleteMonitorTag(monitorID, tagID) sends is a DELETE to
\* /monitors/{monitorID}/tag whose body is the JSON object with tag_id = tagID.
C29_DeleteMonitorTagSendsTagID ==
    (op.name = "DeleteMonitorTag" /\ received.method # "none")
    => /\ received.method = "DELETE"
       /\ received.path = <<"monitors", op.id, "tag">>
       /\ received.body = TagIDBody(op.tag.ID)

\* Create has returned.
CreateReturned == rpc = "idle" /\ creates > 0
CreateCalls == <<"CreateStatusPage", "GetStatusPage", "UpdateStatusPage">>

\* Create issues its calls in the order CreateStatusPage, GetStatusPage,
\* UpdateStatusPage, stops at the first that fails with an error diagnostic,
\* and writes the state exactly when all three succeeded.
CreateOrderAndState ==
    /\ Len(calls) <= 3 /\ calls = SubSeq(CreateCalls, 1, Len(calls))
    /\ oks <= Len(calls) /\ Len(calls) <= oks + 1
    /\ CreateReturned => (tfstate # <<>> <=> oks = 3)
    /\ CreateReturned => (diags # <<>> <=> oks < 3)
    /\ tfstate # <<>> => tfstate = <<Page(createdPage.ID, plan.Slug, plan.Title)>>

\* C30: Create issues CreateStatusPage, GetStatusPage and UpdateStatusPage in
\* this order and writes the state exactly when all three succeed; when the
\* second or the third fails it reports an error, writes no state, and the
\* planned status page exists on the server.
C30_CreateWritesStateIffAllSucceed ==
    /\ CreateOrderAndState
    /\ (CreateReturned /\ oks \in {1, 2})
        => /\ diags # <<>>
           /\ tfstate = <<>>
           /\ PageIndex(plan.Slug) # 0

====
